---- MODULE Spec2Model ----
(***************************************************************************)
(* Model of the Tailwind class extractor: extractTailwindClasses,          *)
(* separateClasses and ensureImportStatement.                              *)
(*                                                                         *)
(* Text is modelled at character level: a string is a sequence of          *)
(* one-character strings.  The document is its text; it is made of an      *)
(* optional import line and self-closing JSX elements <a className=V/>,    *)
(* and every run parses it again.  The class names are words without       *)
(* quotes and commas.  The command runs with an active editor, and a       *)
(* selection starts and ends where a top-level statement does.             *)
(***************************************************************************)
EXTENDS Integers, Sequences, FiniteSets, TLC

\* ------------------------------------------------------------------ bounds
MaxTokens == 2     \* words in one string literal of the initial document
MaxArgs   == 2     \* arguments of a call expression in the initial document
MaxLen    == 3     \* tokens in a token list given to separateClasses alone

\* ------------------------------------------------------------- characters
Q  == "\""
SP == " "
NL == "\n"

IsWs(c) == c \in {SP, NL}

RECURSIVE Flatten(_)
Flatten(ss) == IF ss = <<>> THEN <<>> ELSE Head(ss) \o Flatten(Tail(ss))

StartsWith(s, p) == Len(p) <= Len(s) /\ SubSeq(s, 1, Len(p)) = p

\* String.prototype.includes
Includes(text, pat) ==
    \E i \in 1..(Len(text) - Len(pat) + 1) :
        \A k \in 1..Len(pat) : text[i + k - 1] = pat[k]

\* Array.prototype.join with a separator
RECURSIVE Join(_, _)
Join(parts, sep) ==
    IF parts = <<>> THEN <<>>
    ELSE IF Len(parts) = 1 THEN parts[1]
    ELSE parts[1] \o sep \o Join(Tail(parts), sep)

\* String.prototype.split(/\s+/): the pieces between maximal runs of white
\* space; a run at either end of the string leaves an empty piece there.
RECURSIVE SplitFrom(_, _, _, _)
SplitFrom(s, i, cur, acc) ==
    IF i > Len(s) THEN Append(acc, cur)
    ELSE IF IsWs(s[i])
         THEN IF i > 1 /\ IsWs(s[i - 1])
              THEN SplitFrom(s, i + 1, cur, acc)
              ELSE SplitFrom(s, i + 1, <<>>, Append(acc, cur))
         ELSE SplitFrom(s, i + 1, Append(cur, s[i]), acc)

Split(s) == SplitFrom(s, 1, <<>>, <<>>)

\* ------------------------------------------------------------ separateClasses
mediaPrefixes == <<
    <<"m", "o", "b", "i", "l", "e", ":">>,
    <<"t", "a", "b", "l", "e", "t", ":">>,
    <<"d", "e", "s", "k", "t", "o", "p", ":">>,
    <<"s", "m", ":">>,
    <<"m", "d", ":">>,
    <<"l", "g", ":">>,
    <<"x", "l", ":">>,
    <<"2", "x", "l", ":">> >>

NoPrefix == <<>>

\* mediaPrefixes.find((p) => cls.startsWith(p)); NoPrefix stands for undefined
FindPrefix(cls) ==
    LET hits == {i \in 1..Len(mediaPrefixes) : StartsWith(cls, mediaPrefixes[i])}
    IN  IF hits = {} THEN NoPrefix
        ELSE mediaPrefixes[CHOOSE i \in hits : \A j \in hits : i <= j]

\* mediaClassesMap is an object with string keys: a sequence of
\* [prefix, classes] entries in the order the keys were first set.
HasKey(map, prefix) == \E k \in 1..Len(map) : map[k].prefix = prefix

PushTo(map, prefix, cls) ==
    IF HasKey(map, prefix)
    THEN [k \in 1..Len(map) |->
            IF map[k].prefix = prefix
            THEN [map[k] EXCEPT !.classes = Append(@, cls)]
            ELSE map[k]]
    ELSE Append(map, [prefix |-> prefix, classes |-> <<cls>>])

RECURSIVE SepLoop(_, _, _, _)
SepLoop(classNames, i, base, map) ==
    IF i > Len(classNames)
    THEN [baseClasses |-> base, mediaClassesMap |-> map]
    ELSE LET cls    == classNames[i]
             prefix == FindPrefix(cls)
         IN  IF prefix # NoPrefix
             THEN SepLoop(classNames, i + 1, base, PushTo(map, prefix, cls))
             ELSE SepLoop(classNames, i + 1, Append(base, cls), map)

\* A plausible slip: every prefixed class lands in the bucket that was
\* opened first (one media list, as in a two-list classifier).
RECURSIVE SepLoopOneBucket(_, _, _, _)
SepLoopOneBucket(classNames, i, base, map) ==
    IF i > Len(classNames)
    THEN [baseClasses |-> base, mediaClassesMap |-> map]
    ELSE LET cls    == classNames[i]
             prefix == FindPrefix(cls)
         IN  IF prefix # NoPrefix
             THEN SepLoopOneBucket(classNames, i + 1, base,
                      IF map = <<>> THEN PushTo(map, prefix, cls)
                      ELSE PushTo(map, map[1].prefix, cls))
             ELSE SepLoopOneBucket(classNames, i + 1, Append(base, cls), map)

SeparateClassesOneBucket(classNames) == SepLoopOneBucket(classNames, 1, <<>>, <<>>)

SeparateClasses(classNames) == SepLoop(classNames, 1, <<>>, <<>>)


\* ------------------------------------------------------------ document text
ImportStatement == <<"i", "m", "p", "o", "r", "t", " ", "{", " ", "t", "w", "J", "o", "i", "n", " ", "}", " ", "f", "r", "o", "m", " ", "\"", "t", "a", "i", "l", "w", "i", "n", "d", "-", "m", "e", "r", "g", "e", "\"", ";">>
JoinName  == <<"t", "w", "J", "o", "i", "n">>
CallOpen  == <<"{", "t", "w", "J", "o", "i", "n", "(", "\n", " ", " ", " ", " ", " ", " ", " ", " ">>
PartSep   == <<",", "\n", " ", " ", " ", " ", " ", " ", " ", " ">>
CallClose == <<"\n", " ", " ", " ", " ", " ", " ", ")", "}">>

\* The JSX around an attribute value: <a className=VALUE/> and <a className/>
ElemOpen  == <<"<", "a", " ", "c", "l", "a", "s", "s", "N", "a", "m", "e", "=">>
ElemBare  == <<"<", "a", " ", "c", "l", "a", "s", "s", "N", "a", "m", "e">>
ElemClose == <<"/", ">">>

StartsWithAt(text, i, p) ==
    /\ i + Len(p) - 1 <= Len(text)
    /\ \A k \in 1..Len(p) : text[i + k - 1] = p[k]

\* First index j >= i at which p begins in text; 0 when there is none.
RECURSIVE IndexFrom(_, _, _)
IndexFrom(text, i, p) ==
    IF i > Len(text) THEN 0
    ELSE IF StartsWithAt(text, i, p) THEN i
    ELSE IndexFrom(text, i + 1, p)

RECURSIVE TrimLeft(_)
TrimLeft(s) == IF s # <<>> /\ IsWs(Head(s)) THEN TrimLeft(Tail(s)) ELSE s

RECURSIVE TrimRight(_)
TrimRight(s) ==
    IF s # <<>> /\ IsWs(s[Len(s)]) THEN TrimRight(SubSeq(s, 1, Len(s) - 1)) ELSE s

Trim(s) == TrimRight(TrimLeft(s))

\* The pieces of s between occurrences of the character c.
RECURSIVE SplitOnFrom(_, _, _, _, _)
SplitOnFrom(s, c, i, cur, acc) ==
    IF i > Len(s) THEN Append(acc, cur)
    ELSE IF s[i] = c THEN SplitOnFrom(s, c, i + 1, <<>>, Append(acc, cur))
         ELSE SplitOnFrom(s, c, i + 1, Append(cur, s[i]), acc)

SplitOn(s, c) == SplitOnFrom(s, c, 1, <<>>, <<>>)

\* ------------------------------------------------------------------ parser
\* What ts.createSourceFile and the ts.is... predicates tell the program
\* about an attribute's initializer, read from its raw text.
IsStringLiteralSrc(r) ==
    /\ Len(r) >= 2
    /\ r[1] = Q
    /\ r[Len(r)] = Q
    /\ \A i \in 2..(Len(r) - 1) : r[i] # Q

LiteralText(r) == SubSeq(r, 2, Len(r) - 1)

ParseArgs(content) ==
    IF Trim(content) = <<>> THEN <<>>
    ELSE LET pieces == SplitOn(content, ",")
         IN  [k \in 1..Len(pieces) |->
                LET a == Trim(pieces[k])
                IN  IF IsStringLiteralSrc(a)
                    THEN [literal |-> TRUE, text |-> LiteralText(a)]
                    ELSE [literal |-> FALSE, text |-> a]]

Node(kind, text, callee, args) ==
    [kind |-> kind, text |-> text, callee |-> callee, args |-> args]

ParseInitializer(r) ==
    IF IsStringLiteralSrc(r) THEN Node("StringLiteral", LiteralText(r), <<>>, <<>>)
    ELSE IF Len(r) >= 2 /\ r[1] = "{" /\ r[Len(r)] = "}"
    THEN LET inner == Trim(SubSeq(r, 2, Len(r) - 1))
             open  == IndexFrom(inner, 1, <<"(">>)
         IN  IF inner = <<>> THEN Node("JsxEmpty", <<>>, <<>>, <<>>)
             ELSE IF IsStringLiteralSrc(inner)
             THEN Node("JsxStringLiteral", LiteralText(inner), <<>>, <<>>)
             ELSE IF open > 1 /\ inner[Len(inner)] = ")"
             THEN Node("JsxCall", <<>>, SubSeq(inner, 1, open - 1),
                       ParseArgs(SubSeq(inner, open + 1, Len(inner) - 1)))
             ELSE Node("JsxOther", <<>>, <<>>, <<>>)
    ELSE Node("Other", <<>>, <<>>, <<>>)

\* findClassNames over the parsed buffer: every JSX attribute named
\* className that has an initializer, in document order, with the span of
\* the initializer in the buffer (0-based, end exclusive).
RECURSIVE ScanFrom(_, _, _)
ScanFrom(buf, i, acc) ==
    IF i > Len(buf) THEN acc
    ELSE IF StartsWithAt(buf, i, ElemOpen)
    THEN LET from  == i + Len(ElemOpen)
             close == IndexFrom(buf, from, ElemClose)
         IN  IF close = 0 THEN acc
             ELSE ScanFrom(buf, close + Len(ElemClose),
                      Append(acc, [start |-> from - 1, end |-> close - 1,
                                   init |-> SubSeq(buf, from, close - 1)]))
    ELSE ScanFrom(buf, i + 1, acc)

FindClassNames(buf) == ScanFrom(buf, 1, <<>>)

\* Offsets at which a top-level statement of the document begins, and the
\* end of the document: where a selection may start and end.
Boundaries(text) ==
    {i - 1 : i \in {j \in 1..Len(text) :
                      \/ StartsWithAt(text, j, ElemBare)
                      \/ StartsWithAt(text, j, ImportStatement)}}
    \cup {Len(text)}


\* The selections tried: empty (the cursor at the start), or from one
\* boundary to a later one.
Selections(text) ==
    LET B == Boundaries(text) IN {<<0, 0>>} \cup {sel \in B \X B : sel[1] < sel[2]}

\* ------------------------------------------------------------ the rewriter
\* The loop over a call's arguments: flatten the literals' tokens, give up
\* at the first argument that is no string literal.
RECURSIVE ArgLoop(_, _, _)
ArgLoop(args, i, acc) ==
    IF i > Len(args) THEN [canProcess |-> TRUE, classNames |-> acc]
    ELSE IF args[i].literal
         THEN ArgLoop(args, i + 1, acc \o Split(args[i].text))
         ELSE [canProcess |-> FALSE, classNames |-> acc]

\* A plausible slip: the break without canProcess = false.
RECURSIVE ArgLoopPartial(_, _, _)
ArgLoopPartial(args, i, acc) ==
    IF i > Len(args) THEN [canProcess |-> TRUE, classNames |-> acc]
    ELSE IF args[i].literal
         THEN ArgLoopPartial(args, i + 1, acc \o Split(args[i].text))
         ELSE [canProcess |-> TRUE, classNames |-> acc]

FlattenArgsPartial(args) == ArgLoopPartial(args, 1, <<>>)

FlattenArgs(args) == ArgLoop(args, 1, <<>>)

\* The shape dispatch of the loop body: the class names of a node, or
\* canProcess = FALSE where the code says continue.
ExtractClassNames(ini) ==
    IF ini.kind \in {"StringLiteral", "JsxStringLiteral"}
    THEN [canProcess |-> TRUE, classNames |-> Split(ini.text)]
    ELSE IF ini.kind = "JsxCall" /\ ini.callee = JoinName
    THEN FlattenArgs(ini.args)
    ELSE [canProcess |-> FALSE, classNames |-> <<>>]

Quoted(s) == <<Q>> \o s \o <<Q>>

RECURSIVE MediaParts(_)
MediaParts(map) ==
    IF map = <<>> THEN <<>>
    ELSE (IF Len(map[1].classes) > 0
          THEN <<Quoted(Join(map[1].classes, <<SP>>))>> ELSE <<>>)
         \o MediaParts(Tail(map))

\* A plausible slip: all media classes in one argument.
ClassPartsOneMedia(sep) ==
    (IF Len(sep.baseClasses) > 0
     THEN <<Quoted(Join(sep.baseClasses, <<SP>>))>> ELSE <<>>)
    \o <<Quoted(Join(Flatten([k \in 1..Len(sep.mediaClassesMap) |->
                                 sep.mediaClassesMap[k].classes]), <<SP>>))>>

ClassParts(sep) ==
    (IF Len(sep.baseClasses) > 0
     THEN <<Quoted(Join(sep.baseClasses, <<SP>>))>> ELSE <<>>)
    \o MediaParts(sep.mediaClassesMap)

NewClassName(classParts) == CallOpen \o Join(classParts, PartSep) \o CallClose

\* A plausible slip: the skip test left out (the code calls it optional).
NoMediaClassesNever(map) == FALSE

\* Object.keys(mediaClassesMap).length === 0
NoMediaClasses(map) == Len(map) = 0

\* A plausible slip: the in-buffer position used as it is.
AdjustedUnshifted(pos, off) == pos

\* start + offset, end + offset
Adjusted(pos, off) == pos + off

ReplaceEdit(k, node, off, newText) ==
    [kind |-> "replace", start |-> Adjusted(node.start, off),
     end |-> Adjusted(node.end, off), newText |-> newText, node |-> k]

InsertEdit == [kind |-> "insert", start |-> 0, end |-> 0,
               newText |-> ImportStatement \o <<NL>>, node |-> 0]

\* A plausible slip: the import inserted without looking.
EnsureImportAlways(docText, edit) == Append(edit, InsertEdit)

\* A plausible slip: the import asked for whether or not anything changed.
SizePositiveAlways(edit) == TRUE

\* workspaceEdit.size > 0
SizePositive(edit) == Len(edit) > 0

\* ensureImportStatement: the document's whole text is searched
EnsureImportStatement(docText, edit) ==
    IF ~Includes(docText, ImportStatement) THEN Append(edit, InsertEdit) ELSE edit

\* vscode.workspace.applyEdit when it succeeds: every edit is relative to
\* the text before the batch.
RECURSIVE ApplyFrom(_, _, _)
ApplyFrom(docText, edit, k) ==
    IF k = 0 THEN docText
    ELSE LET e == edit[k]
         IN  ApplyFrom(SubSeq(docText, 1, e.start) \o e.newText
                         \o SubSeq(docText, e.end + 1, Len(docText)),
                       edit, k - 1)

Replaces(edit) == SelectSeq(edit, LAMBDA e : e.kind = "replace")
Inserts(edit)  == SelectSeq(edit, LAMBDA e : e.kind = "insert")

ApplyEdits(docText, edit) ==
    LET body == ApplyFrom(docText, Replaces(edit), Len(Replaces(edit)))
    IN  ApplyFrom(body, Inserts(edit), Len(Inserts(edit)))


\* ------------------------------------------------------------------ inputs
Words == { <<"p">>, <<"s", "m", ":", "a">>, <<"m", "d", ":", "b">> }
Pads  == { <<<<>>, <<>>>>, <<<<SP>>, <<>>>>, <<<<>>, <<SP>>>> }

\* The contents of a string literal: up to MaxTokens words separated by a
\* blank, as they are or with a blank in front or behind.
Texts ==
    { pad[1] \o Join(ws, <<SP>>) \o pad[2] :
        pad \in Pads,
        ws \in UNION { [1..n -> Words] : n \in 0..MaxTokens } }

\* The arguments of a call in the initial document: string literals and
\* the identifier c.
ArgSrcs ==
    { Quoted(<<"p", SP>>), Quoted(<<SP, "s", "m", ":", "a">>),
      Quoted(<<"s", "m", ":", "a">>), Quoted(<<"m", "d", ":", "b", SP, "p">>),
      <<"c">> }

CallSrc(callee, args) ==
    <<"{">> \o callee \o <<"(">> \o Join(args, <<",", SP>>) \o <<")", "}">>

ArgLists == UNION { [1..n -> ArgSrcs] : n \in 0..MaxArgs }

\* The initializers of the element under study, <<>> for an attribute
\* without one: "..", {".."}, {twJoin(..)}, {f("sm:a")}, {c}, {}.
Values ==
    { Quoted(t) : t \in Texts }
    \cup { <<"{">> \o Quoted(t) \o <<"}">> : t \in Texts }
    \cup { CallSrc(JoinName, a) : a \in ArgLists }
    \cup { CallSrc(<<"f">>, <<Quoted(<<"s", "m", ":", "a">>)>>),
           <<"{", "c", "}">>, <<"{", "}">>, <<>> }

\* What stands in front of it: nothing, an element that is rewritten, or
\* an element that is passed over.
Contexts ==
    { <<>>,
      <<Quoted(<<"p", SP, "s", "m", ":", "a">>)>>,
      <<CallSrc(JoinName, <<Quoted(<<"s", "m", ":", "a">>), <<"c">>>>)>> }

ElemText(v) == IF v = <<>> THEN ElemBare \o ElemClose ELSE ElemOpen \o v \o ElemClose

\* The initial documents: with or without the import line, then the
\* elements.
InitialDocs ==
    { head \o Flatten([k \in 1..Len(cs) |-> ElemText(cs[k])]) \o ElemText(v) :
        head \in { <<>>, ImportStatement \o <<NL>> },
        cs \in Contexts,
        v \in Values }

\* The token lists given to separateClasses alone.
Tokens ==
    { <<>>, <<"p">>, <<"s", "m">>, <<"S", "m", ":", "a">>, <<"p", "s", "m", ":", "a">>,
      <<"s", "m", ":", "a">>, <<"s", "m", ":", "b">>, <<"m", "d", ":", "b">>,
      <<"x", "l", ":", "c">>, <<"2", "x", "l", ":", "c">> }

TokenLists == UNION { [1..n -> Tokens] : n \in 0..MaxLen }

ApplyOutcomes == { "ok", "rejected", "threw" }

\* ------------------------------------------------------------------- state
VARIABLES
    text,            \* the document's text
    selection,       \* [from, to] offsets of the selection, from = to when empty
    pc,              \* where the invocation stands: idle, loop, apply
    offset,          \* offset of the parsed buffer in the document
    classNameNodes,  \* the attributes findClassNames collected
    idx,             \* index of the next node of the loop
    workspaceEdit,   \* the edits collected so far
    applyResult,     \* what applyEdit answered in the last invocation
    reported,        \* showErrorMessage was called in the last invocation
    lastRun,         \* "whole" when the present text is what a run over the
                     \* whole document left, "part" otherwise
    classNames,      \* the token list given to separateClasses
    partition        \* what separateClasses returned for it

vars == <<text, selection, pc, offset, classNameNodes, idx, workspaceEdit,
          applyResult, reported, lastRun, classNames, partition>>

NoPartition == [baseClasses |-> <<>>, mediaClassesMap |-> <<>>]

Init ==
    /\ text \in InitialDocs
    /\ selection = [from |-> 0, to |-> 0]
    /\ pc = "idle"
    /\ offset = 0
    /\ classNameNodes = <<>>
    /\ idx = 1
    /\ workspaceEdit = <<>>
    /\ applyResult = "none"
    /\ reported = FALSE
    /\ lastRun = "part"
    /\ classNames = <<>>
    /\ partition = NoPartition

SelectionIsEmpty == selection.from = selection.to

\* The command is invoked with an active editor: the text is read, the
\* selection (or the whole text) is parsed and the candidates collected.
Invoke(from, to) ==
    /\ pc = "idle"
    /\ selection' = [from |-> from, to |-> to]
    /\ LET sourceText == IF from # to THEN SubSeq(text, from + 1, to) ELSE text
       IN  /\ offset' = IF from # to THEN from ELSE 0
           /\ classNameNodes' = FindClassNames(sourceText)
    /\ idx' = 1
    /\ workspaceEdit' = <<>>
    /\ applyResult' = "none"
    /\ reported' = FALSE
    /\ classNames' = <<>>
    /\ partition' = NoPartition
    /\ pc' = "loop"
    /\ UNCHANGED <<text, lastRun>>

\* One turn of the loop over classNameNodes.
ProcessNode ==
    /\ pc = "loop"
    /\ idx <= Len(classNameNodes)
    /\ LET node == classNameNodes[idx]
           got  == ExtractClassNames(ParseInitializer(node.init))
           sep  == SeparateClasses(got.classNames)
       IN  IF ~got.canProcess
           THEN UNCHANGED <<workspaceEdit, classNames, partition>>
           ELSE /\ classNames' = got.classNames
                /\ partition' = sep
                /\ workspaceEdit' =
                     IF NoMediaClasses(sep.mediaClassesMap) THEN workspaceEdit
                     ELSE Append(workspaceEdit,
                            ReplaceEdit(idx, node, offset, NewClassName(ClassParts(sep))))
    /\ idx' = idx + 1
    /\ UNCHANGED <<text, selection, pc, offset, classNameNodes, applyResult,
                   reported, lastRun>>

\* After the loop: the import is looked for when something was collected.
CollectImport ==
    /\ pc = "loop"
    /\ idx > Len(classNameNodes)
    /\ workspaceEdit' = IF SizePositive(workspaceEdit)
                        THEN EnsureImportStatement(text, workspaceEdit)
                        ELSE workspaceEdit
    /\ pc' = "apply"
    /\ UNCHANGED <<text, selection, offset, classNameNodes, idx, applyResult,
                   reported, lastRun, classNames, partition>>

\* await applyEdit: it answers true, answers false, or throws; only a
\* throw reaches the catch block and showErrorMessage.
ApplyEdit(outcome) ==
    /\ pc = "apply"
    /\ applyResult' = outcome
    /\ reported' = (outcome = "threw")
    /\ text' = IF outcome = "ok" THEN ApplyEdits(text, workspaceEdit) ELSE text
    /\ lastRun' = IF outcome = "ok"
                  THEN (IF SelectionIsEmpty THEN "whole" ELSE "part")
                  ELSE lastRun
    /\ pc' = "idle"
    \* the invocation's locals end with it
    /\ selection' = [from |-> 0, to |-> 0]
    /\ offset' = 0
    /\ classNameNodes' = <<>>
    /\ idx' = 1
    /\ workspaceEdit' = <<>>
    /\ classNames' = <<>>
    /\ partition' = NoPartition

InvokeCommand ==
    pc = "idle" /\ \E sel \in Selections(text) : Invoke(sel[1], sel[2])

ApplyEditAnswers == \E outcome \in ApplyOutcomes : ApplyEdit(outcome)

Next ==
    \/ InvokeCommand
    \/ ProcessNode
    \/ CollectImport
    \/ ApplyEditAnswers

Spec == Init /\ [][Next]_vars


\* --------------------------------------------- separateClasses on its own
InitClassify ==
    /\ classNames \in TokenLists
    /\ partition = NoPartition
    /\ pc = "classify"
    /\ text = <<>>
    /\ selection = [from |-> 0, to |-> 0]
    /\ offset = 0
    /\ classNameNodes = <<>>
    /\ idx = 1
    /\ workspaceEdit = <<>>
    /\ applyResult = "none"
    /\ reported = FALSE
    /\ lastRun = "part"

Classify ==
    /\ pc = "classify"
    /\ partition' = SeparateClasses(classNames)
    /\ pc' = "classified"
    /\ UNCHANGED <<text, selection, offset, classNameNodes, idx, workspaceEdit,
                   applyResult, reported, lastRun, classNames>>

NextClassify == Classify

SpecClassify == InitClassify /\ [][NextClassify]_vars


\* ---------------------------------------------------------------- claims
Recognized == { mediaPrefixes[i] : i \in 1..Len(mediaPrefixes) }

HasPrefix(t) == \E p \in Recognized : StartsWith(t, p)

Unprefixed(tokens) == SelectSeq(tokens, LAMBDA t : ~HasPrefix(t))

WithPrefix(tokens, p) == SelectSeq(tokens, LAMBDA t : StartsWith(t, p))

\* Position of the first token of the list that starts with p
FirstWith(tokens, p) ==
    CHOOSE i \in 1..Len(tokens) :
        /\ StartsWith(tokens[i], p)
        /\ \A j \in 1..(i - 1) : ~StartsWith(tokens[j], p)

RECURSIVE SumLen(_)
SumLen(map) == IF map = <<>> THEN 0 ELSE Len(map[1].classes) + SumLen(Tail(map))

\* C1: separateClasses returns a complete, disjoint, order-preserving
\* partition of its input: the base list is the input's unprefixed tokens in
\* input order, each bucket is the input's tokens that start with the
\* bucket's recognized prefix in input order, every token is in exactly one
\* of them, and the buckets stand in the order of their first members.
C1_Partition ==
    pc = "classified" =>
        LET base == partition.baseClasses
            map  == partition.mediaClassesMap
        IN  /\ base = Unprefixed(classNames)
            /\ \A k \in 1..Len(map) :
                 /\ map[k].prefix \in Recognized
                 /\ map[k].classes # <<>>
                 /\ map[k].classes = WithPrefix(classNames, map[k].prefix)
            /\ \A j, k \in 1..Len(map) :
                 j < k => /\ map[j].prefix # map[k].prefix
                          /\ FirstWith(classNames, map[j].prefix)
                               < FirstWith(classNames, map[k].prefix)
            /\ \A i \in 1..Len(classNames) :
                 HasPrefix(classNames[i]) =>
                    \E k \in 1..Len(map) : StartsWith(classNames[i], map[k].prefix)
            /\ Len(base) + SumLen(map) = Len(classNames)

C1_Witness ==
    /\ pc = "classified"
    /\ Len(partition.baseClasses) = 1
    /\ Len(partition.mediaClassesMap) = 2
    /\ partition.mediaClassesMap[1].prefix = <<"2", "x", "l", ":">>
    /\ partition.mediaClassesMap[2].prefix = <<"s", "m", ":">>
    /\ classNames[1] = <<"2", "x", "l", ":", "c">>


\* ------------------------------------------------- claims on the pipeline
ReplaceEdits == { k \in 1..Len(workspaceEdit) : workspaceEdit[k].kind = "replace" }
InsertEdits  == { k \in 1..Len(workspaceEdit) : workspaceEdit[k].kind = "insert" }

\* The replacement edits collected for the k-th candidate
EditsOf(k) == { j \in ReplaceEdits : workspaceEdit[j].node = k }

Initializer(k) == ParseInitializer(classNameNodes[k].init)

IsJoinCall(ini) == ini.kind = "JsxCall" /\ ini.callee = JoinName

AllLiteral(ini) == \A a \in 1..Len(ini.args) : ini.args[a].literal

\* The tokens of an accepted shape: the literal's text split, or the
\* arguments' texts split and put together in argument order.
TokensOf(ini) ==
    IF ini.kind \in {"StringLiteral", "JsxStringLiteral"} THEN Split(ini.text)
    ELSE Flatten([a \in 1..Len(ini.args) |-> Split(ini.args[a].text)])

Accepted(ini) ==
    \/ ini.kind \in {"StringLiteral", "JsxStringLiteral"}
    \/ IsJoinCall(ini) /\ AllLiteral(ini)

SomePrefixed(tokens) == \E i \in 1..Len(tokens) : HasPrefix(tokens[i])

\* The recognized prefixes of a token list in the order of first occurrence
RECURSIVE PrefixOrder(_, _)
PrefixOrder(tokens, seen) ==
    IF tokens = <<>> THEN seen
    ELSE LET p == FindPrefix(Head(tokens))
         IN  IF p = NoPrefix \/ \E k \in 1..Len(seen) : seen[k] = p
             THEN PrefixOrder(Tail(tokens), seen)
             ELSE PrefixOrder(Tail(tokens), Append(seen, p))

\* C2 (as claimed): a run over the whole document, made on the text that a
\* run over the whole document left, leaves the text as it is.
C2_Idempotent ==
    (pc = "apply" /\ lastRun = "whole" /\ SelectionIsEmpty)
        => ApplyEdits(text, workspaceEdit) = text

\* C3 (as claimed): a run on the text that a previous run left collects no
\* edit at all.
C3_SecondPassEmpty ==
    (pc = "apply" /\ lastRun = "whole") => workspaceEdit = <<>>

\* C3 (amended): a run on the text that a run over the whole document left
\* collects no import insertion and no replacement for a string-literal
\* attribute; it collects one replacement for each scanned join call with
\* literal arguments only and a prefixed token, and for nothing else.
C3_SecondPassEdits ==
    (pc = "apply" /\ lastRun = "whole") =>
        /\ InsertEdits = {}
        /\ \A k \in 1..Len(classNameNodes) :
             LET ini == Initializer(k)
             IN  IF IsJoinCall(ini) /\ AllLiteral(ini) /\ SomePrefixed(TokensOf(ini))
                 THEN Cardinality(EditsOf(k)) = 1
                 ELSE EditsOf(k) = {}

C3_Witness ==
    /\ pc = "apply"
    /\ lastRun = "whole"
    /\ ReplaceEdits # {}
    /\ Includes(text, ImportStatement)

\* C4: the batch holds the import insertion (the import line and a line
\* end, at offset 0) exactly when it holds a replacement and the import line
\* is nowhere in the document's whole text, whatever was selected; it never
\* holds two.
C4_ImportIff ==
    pc = "apply" =>
        /\ (InsertEdits # {}) <=>
              (ReplaceEdits # {} /\ ~Includes(text, ImportStatement))
        /\ Cardinality(InsertEdits) <= 1
        /\ \A j \in InsertEdits :
              /\ workspaceEdit[j].start = 0
              /\ workspaceEdit[j].end = 0
              /\ workspaceEdit[j].newText = ImportStatement \o <<NL>>

\* a selection that leaves the import line out, something rewritten in it
C4_Witness ==
    /\ pc = "apply"
    /\ ~SelectionIsEmpty
    /\ selection.from > 0
    /\ ReplaceEdits # {}
    /\ InsertEdits = {}
    /\ ~Includes(SubSeq(text, selection.from + 1, selection.to), ImportStatement)

\* C5 (as claimed): when applyEdit answers that the edit failed, the
\* failure is reported with showErrorMessage.
C5_RejectionReported ==
    (pc = "idle" /\ applyResult = "rejected") => reported

\* C6: a replacement is a call of the join function whose arguments are
\* string literals: first the unprefixed tokens joined by single blanks, if
\* there are any, then for each prefix, in the order of first occurrence,
\* the tokens of that prefix joined by single blanks.
C6_Arguments ==
    \A j \in ReplaceEdits :
        LET tokens == TokensOf(Initializer(workspaceEdit[j].node))
            base   == Unprefixed(tokens)
            order  == PrefixOrder(tokens, <<>>)
            call   == ParseInitializer(workspaceEdit[j].newText)
            wanted == (IF base # <<>> THEN <<Join(base, <<SP>>)>> ELSE <<>>)
                      \o [k \in 1..Len(order) |->
                            Join(WithPrefix(tokens, order[k]), <<SP>>)]
        IN  /\ IsJoinCall(call)
            /\ AllLiteral(call)
            /\ Len(order) >= 1
            /\ [a \in 1..Len(call.args) |-> call.args[a].text] = wanted

\* base tokens and two buckets, the buckets not in the table's order
C6_Witness ==
    \E j \in ReplaceEdits :
        LET call == ParseInitializer(workspaceEdit[j].newText)
        IN  /\ Len(call.args) = 3
            /\ call.args[1].text = <<"p">>
            /\ call.args[2].text = <<"m", "d", ":", "b">>
            /\ call.args[3].text = <<"s", "m", ":", "a">>

\* C7: the offset is the selection's start when something is selected and 0
\* otherwise; every replacement's span is its value's span in the parsed
\* buffer moved by that offset, and is where the value stands in the
\* document.
C7_Offsets ==
    pc \in {"loop", "apply"} =>
        /\ offset = IF SelectionIsEmpty THEN 0 ELSE selection.from
        /\ \A j \in ReplaceEdits :
             LET e    == workspaceEdit[j]
                 node == classNameNodes[e.node]
                 off  == IF SelectionIsEmpty THEN 0 ELSE selection.from
             IN  /\ e.start = node.start + off
                 /\ e.end = node.end + off
                 /\ SubSeq(text, e.start + 1, e.end) = node.init

\* two replacements in a selection that does not start the document
C7_Witness ==
    /\ pc = "apply"
    /\ ~SelectionIsEmpty
    /\ selection.from > 0
    /\ Cardinality(ReplaceEdits) = 2

\* C8: a candidate of an accepted shape whose tokens have no recognized
\* prefix gets no edit; a batch without a replacement is empty.
C8_NoPrefixNoEdit ==
    pc \in {"loop", "apply"} =>
        /\ \A k \in 1..(idx - 1) :
             LET ini == Initializer(k)
             IN  (Accepted(ini) /\ ~SomePrefixed(TokensOf(ini))) => EditsOf(k) = {}
        /\ (pc = "apply" /\ ReplaceEdits = {}) => workspaceEdit = <<>>

\* a join call without arguments and a string literal without a prefixed
\* token, both passed over
C8_Witness ==
    /\ pc = "apply"
    /\ workspaceEdit = <<>>
    /\ \E k \in 1..Len(classNameNodes) :
          IsJoinCall(Initializer(k)) /\ Initializer(k).args = <<>>

\* C9 (as claimed): no token given to separateClasses is empty, and no
\* argument of a replacement is the empty string.
C9_NoEmptyToken ==
    /\ \A i \in 1..Len(classNames) : classNames[i] # <<>>
    /\ \A j \in ReplaceEdits :
         LET call == ParseInitializer(workspaceEdit[j].newText)
         IN  \A a \in 1..Len(call.args) : call.args[a].text # <<>>

\* C10: a join call whose arguments are all string literals is rewritten
\* from its arguments' tokens taken together in argument order; a join call
\* with another argument gets no edit; nothing is reported for it; and the
\* candidates after it are dealt with as usual.
C10_JoinCalls ==
    pc \in {"loop", "apply"} =>
        /\ ~reported
        /\ \A k \in 1..(idx - 1) :
             LET ini    == Initializer(k)
                 tokens == TokensOf(ini)
             IN  /\ (IsJoinCall(ini) /\ ~AllLiteral(ini)) => EditsOf(k) = {}
                 /\ (Accepted(ini) /\ SomePrefixed(tokens)) =>
                       /\ Cardinality(EditsOf(k)) = 1
                       /\ \A j \in EditsOf(k) :
                            workspaceEdit[j].newText =
                               NewClassName(ClassParts(SeparateClasses(tokens)))
        /\ pc = "apply" => idx = Len(classNameNodes) + 1

\* a join call with a prefixed literal and then the identifier is passed
\* over, and the element after it is rewritten
C10_Witness ==
    /\ pc = "apply"
    /\ Len(classNameNodes) = 2
    /\ IsJoinCall(Initializer(1))
    /\ Initializer(1).args[1].literal
    /\ SomePrefixed(Split(Initializer(1).args[1].text))
    /\ ~AllLiteral(Initializer(1))
    /\ EditsOf(1) = {}
    /\ IsJoinCall(Initializer(2))
    /\ Len(Initializer(2).args) = 2
    /\ Cardinality(EditsOf(2)) = 1

====
